---- MODULE Spec2Model ----
(***************************************************************************)
(* Coordinate enrichment of establishment records (enricher.py) and its    *)
(* per-region orchestration (pipeline.py).                                 *)
(*                                                                         *)
(* Strings are sequences of one-character strings, so that the            *)
(* normalisations (strip non-digits, zero-pad, numeric cast) are computed  *)
(* and not assumed.  A float is <<"num", n>> or <<"nan", 0>>; a null of    *)
(* any column is NULL.                                                     *)
(***************************************************************************)
EXTENDS Integers, Sequences, FiniteSets, TLC

\* ---------------------------------------------------------------- bounds
MaxRows == 2
MaxCat == 2
MaxChunks == 2

\* ------------------------------------------------------ program constants
CepWidth == 8
CnpjBasicoWidth == 8
CnpjOrdemWidth == 4
CnpjDvWidth == 2
RateLimit == 11
DownloadRetries == 3
RetryWaitSecs == 30

\* ------------------------------------------------------------ values
NULL == <<"<null>">>
NaN == <<"nan", 0>>
Num(n) == <<"num", n>>
IsNum(v) == v # NULL /\ v[1] = "num"
Text == <<"text", 0>>

Digits == <<"0", "1", "2", "3", "4", "5", "6", "7", "8", "9">>
IsDigit(c) == \E i \in 1..Len(Digits) : Digits[i] = c
DigitVal(c) == (CHOOSE i \in 1..Len(Digits) : Digits[i] = c) - 1

\* str.replace_all(r"\D", ""): null stays null
StripNonDigits(s) == IF s = NULL THEN NULL ELSE SelectSeq(s, IsDigit)

\* str.zfill(w): left-pads with "0" up to w characters, never truncates
Zfill(s, w) ==
    IF s = NULL THEN NULL
    ELSE IF Len(s) >= w THEN s
    ELSE [i \in 1..(w - Len(s)) |-> "0"] \o s

\* str.len_bytes() > 0 as a filter predicate: null is not kept
NonEmptyStr(s) == s # NULL /\ Len(s) > 0

\* str.strip() of Python, on a non-null string
RECURSIVE LStrip(_)
LStrip(s) == IF s # <<>> /\ Head(s) = " " THEN LStrip(Tail(s)) ELSE s
RECURSIVE RStrip(_)
RStrip(s) ==
    IF s # <<>> /\ s[Len(s)] = " " THEN RStrip(SubSeq(s, 1, Len(s) - 1)) ELSE s
Strip(s) == RStrip(LStrip(s))

RECURSIVE DigitsValue(_)
DigitsValue(s) ==
    IF s = <<>> THEN 0
    ELSE 10 * DigitsValue(SubSeq(s, 1, Len(s) - 1)) + DigitVal(s[Len(s)])

\* cast(pl.Float64, strict=False) of a string column
CastStrFloat(s) ==
    IF s = NULL \/ s = <<>> THEN NULL
    ELSE IF \E i \in 1..Len(s) : ~IsDigit(s[i]) THEN NULL
    ELSE Num(DigitsValue(s))

\* cast(pl.Float64, strict=False) of a coordinate column of the file
CastCoord(v) == IF v = Text THEN NULL ELSE v

Abs(n) == IF n < 0 THEN -n ELSE n

\* lexicographic order of two non-null digit strings
RECURSIVE StrLess(_, _)
StrLess(a, b) ==
    IF b = <<>> THEN FALSE
    ELSE IF a = <<>> THEN TRUE
    ELSE IF Head(a) # Head(b) THEN DigitVal(Head(a)) < DigitVal(Head(b))
    ELSE StrLess(Tail(a), Tail(b))

\* sort order of a string column, nulls first
StrKeyLess(a, b) ==
    IF a = NULL THEN b # NULL
    ELSE IF b = NULL THEN FALSE
    ELSE StrLess(a, b)

RECURSIVE SetToSeq(_)
SetToSeq(S) ==
    IF S = {} THEN <<>>
    ELSE LET x == CHOOSE y \in S : TRUE IN <<x>> \o SetToSeq(S \ {x})

RECURSIVE Flatten(_)
Flatten(ss) == IF ss = <<>> THEN <<>> ELSE Head(ss) \o Flatten(Tail(ss))

Range(s) == {s[i] : i \in 1..Len(s)}

\* the orders of n rows
Perms(n) == {p \in [1..n -> 1..n] : \A i, j \in 1..n : i # j => p[i] # p[j]}

\* with_columns: replaces the named columns, adds the new ones
WithColumns(r, upd) ==
    [k \in DOMAIN r \cup DOMAIN upd |-> IF k \in DOMAIN upd THEN upd[k] ELSE r[k]]

\* select / drop of columns
SelectCols(r, cols) == [k \in cols |-> r[k]]

\* ------------------------------------------------------------ load_coords
Required == {"COD_MUNICIPIO", "CEP", "NUM_ENDERECO", "LATITUDE", "LONGITUDE"}
NOFILE == [columns |-> {}, rows |-> {}, exists |-> FALSE]

MissingColumnsAll(file) == IF Required \subseteq file.columns THEN {} ELSE Required
MissingColumns(file) == Required \ file.columns

\* the standardising with_columns of the catalog
NormalizeCoordRow(c) ==
    WithColumns(c, [CEP |-> Zfill(StripNonDigits(c.CEP), CepWidth),
                    NUM_ENDERECO |-> StripNonDigits(c.NUM_ENDERECO),
                    LATITUDE |-> CastCoord(c.LATITUDE),
                    LONGITUDE |-> CastCoord(c.LONGITUDE)])

KeepCoordRow(c) ==
    /\ NonEmptyStr(c.NUM_ENDERECO)
    /\ c.LATITUDE # NULL
    /\ c.LONGITUDE # NULL

CoordKey(c) == <<c.CEP, c.NUM_ENDERECO>>

\* unique(subset=["CEP", "NUM_ENDERECO"]): one row of each key, any of them
UniqueNoDedup(rows) == {rows}
Unique(rows) ==
    {U \in SUBSET rows :
        /\ \A c \in rows : \E u \in U : CoordKey(u) = CoordKey(c)
        /\ \A u, v \in U : CoordKey(u) = CoordKey(v) => u = v}

FilterMunicipio(rows, ibge_codes) ==
    IF ibge_codes # {} THEN {c \in rows : c.COD_MUNICIPIO \in ibge_codes} ELSE rows

\* the catalogs load_coords may return for a file that passed validation
LoadCoords(file, ibge_codes) ==
    LET kept == {c \in {NormalizeCoordRow(x) : x \in FilterMunicipio(file.rows, ibge_codes)} :
                    KeepCoordRow(c)}
    IN {{WithColumns(c, [_NUM_IBGE |-> CastStrFloat(c.NUM_ENDERECO)]) : c \in U} :
           U \in Unique(kept)}

\* ------------------------------------------------------------ _prepare_estab
PrepareRow(r) ==
    WithColumns(r, [CEP |-> Zfill(StripNonDigits(r.CEP), CepWidth),
                    NUMERO |-> StripNonDigits(r.NUMERO),
                    CNPJ |-> Zfill(r.CNPJ_BASICO, CnpjBasicoWidth)
                             \o Zfill(r.CNPJ_ORDEM, CnpjOrdemWidth)
                             \o Zfill(r.CNPJ_DV, CnpjDvWidth),
                    LATITUDE |-> NULL,
                    LONGITUDE |-> NULL])

PrepareEstab(d) == [i \in 1..Len(d) |-> PrepareRow(d[i])]

\* ------------------------------------------------------------ _enrich_exact
\* when(col.is_null()).then(candidate).otherwise(col), for each column apart
CoalesceOverwrite(r, lat, lon) == WithColumns(r, [LATITUDE |-> lat, LONGITUDE |-> lon])
Coalesce(r, lat, lon) ==
    WithColumns(r, [LATITUDE |-> IF r.LATITUDE = NULL THEN lat ELSE r.LATITUDE,
                    LONGITUDE |-> IF r.LONGITUDE = NULL THEN lon ELSE r.LONGITUDE])

\* the catalog rows a left join on (CEP, NUMERO) pairs with r: null keys join nothing
ExactMatchesCepOnly(r, coords) == {c \in coords : r.CEP # NULL /\ c.CEP = r.CEP}
ExactMatches(r, coords) ==
    {c \in coords : /\ r.CEP # NULL /\ r.NUMERO # NULL
                    /\ c.CEP = r.CEP /\ c.NUM_ENDERECO = r.NUMERO}

\* the rows the left join yields for r: one per matching catalog row, else r alone
ExactJoinRow(r, coords) ==
    LET m == ExactMatches(r, coords)
    IN IF m = {} THEN <<Coalesce(r, NULL, NULL)>>
       ELSE LET ms == SetToSeq(m)
            IN [k \in 1..Len(ms) |-> Coalesce(r, ms[k].LATITUDE, ms[k].LONGITUDE)]

EnrichExact(d, coords) == Flatten([i \in 1..Len(d) |-> ExactJoinRow(d[i], coords)])

\* ------------------------------------------------------------ _enrich_approximate
NumOf(v) == v[2]

\* sort(["_RCEP", "_NUM_IBGE"]) of the catalog side
CoordLess(a, b) ==
    \/ StrKeyLess(a.CEP, b.CEP)
    \/ a.CEP = b.CEP /\ NumOf(a._NUM_IBGE) < NumOf(b._NUM_IBGE)

\* sort(["CEP", "_NUM_EST"]) of the establishments that have a number
EstLess(a, b) ==
    \/ StrKeyLess(a.CEP, b.CEP)
    \/ a.CEP = b.CEP /\ NumOf(CastStrFloat(a.NUMERO)) < NumOf(CastStrFloat(b.NUMERO))

\* the orders the sorts may leave the rows in (equal keys: any order)
SortedCoords(s) ==
    {[i \in 1..Len(s) |-> s[p[i]]] : p \in
        {q \in Perms(Len(s)) :
            \A i, j \in 1..Len(s) : i < j => ~CoordLess(s[q[j]], s[q[i]])}}
SortedEst(s) ==
    {[i \in 1..Len(s) |-> s[p[i]]] : p \in
        {q \in Perms(Len(s)) :
            \A i, j \in 1..Len(s) : i < j => ~EstLess(s[q[j]], s[q[i]])}}

\* last index of the run of equal numbers that starts at k
LastEqual(g, k) ==
    CHOOSE j \in k..Len(g) :
        /\ \A m \in k..j : NumOf(g[m]._NUM_IBGE) = NumOf(g[k]._NUM_IBGE)
        /\ (j = Len(g) \/ NumOf(g[j + 1]._NUM_IBGE) # NumOf(g[k]._NUM_IBGE))

\* join_asof(strategy="nearest") within one group g, sorted ascending: the scan
\* keeps the last row not above x, then takes the first row above x when it is
\* at least as near (0: the group is empty)
RECURSIVE NearestScanBackward(_, _, _, _)
NearestScanBackward(x, g, k, best) ==
    IF k > Len(g) THEN best
    ELSE IF NumOf(g[k]._NUM_IBGE) <= x THEN NearestScanBackward(x, g, k + 1, k)
    ELSE best
RECURSIVE NearestScanStrict(_, _, _, _)
NearestScanStrict(x, g, k, best) ==
    IF k > Len(g) THEN best
    ELSE IF NumOf(g[k]._NUM_IBGE) <= x THEN NearestScanStrict(x, g, k + 1, k)
    ELSE IF best = 0 \/ Abs(NumOf(g[k]._NUM_IBGE) - x) < Abs(x - NumOf(g[best]._NUM_IBGE))
         THEN LastEqual(g, k)
         ELSE best
RECURSIVE NearestScan(_, _, _, _)
NearestScan(x, g, k, best) ==
    IF k > Len(g) THEN best
    ELSE IF NumOf(g[k]._NUM_IBGE) <= x THEN NearestScan(x, g, k + 1, k)
    ELSE IF best = 0 \/ Abs(NumOf(g[k]._NUM_IBGE) - x) <= Abs(x - NumOf(g[best]._NUM_IBGE))
         THEN LastEqual(g, k)
         ELSE best

\* the group of the sorted catalog side that has by-key cep
AsofGroupAll(ca, cep) == ca
AsofGroup(ca, cep) ==
    LET InGroup(c) == c.CEP = cep IN SelectSeq(ca, InGroup)

\* one left row of the join_asof, then the coalescing with_columns
AsofRow(r, ca) ==
    LET g == AsofGroup(ca, r.CEP)
        b == NearestScan(NumOf(CastStrFloat(r.NUMERO)), g, 1, 0)
    IN IF b = 0 THEN Coalesce(r, NULL, NULL)
       ELSE Coalesce(r, g[b].LATITUDE, g[b].LONGITUDE)

HasNum(r) == CastStrFloat(r.NUMERO) # NULL
HasNoNum(r) == CastStrFloat(r.NUMERO) = NULL

\* the batches _enrich_approximate may return (the sorts leave equal keys in any order)
EnrichApproximate(d, coords) ==
    LET numeric == {c \in coords : c._NUM_IBGE # NULL}
        df_with_num == SelectSeq(d, HasNum)
        df_no_num == SelectSeq(d, HasNoNum)
    IN IF df_with_num = <<>> THEN {d}
       ELSE {[i \in 1..Len(w) |-> AsofRow(w[i], ca)] \o df_no_num :
                w \in SortedEst(df_with_num),
                ca \in SortedCoords(SetToSeq(numeric))}

\* ------------------------------------------------------------ _build_address
OrEmpty(v) == IF v = NULL THEN <<>> ELSE v

RECURSIVE JoinSpace(_)
JoinSpace(ps) ==
    IF ps = <<>> THEN <<>>
    ELSE IF Len(ps) = 1 THEN Head(ps)
    ELSE Head(ps) \o <<" ">> \o JoinSpace(Tail(ps))

Brasil == <<"B", "r", "a", "s", "i", "l">>

BuildAddressNoSuffix(row) ==
    LET parts == <<OrEmpty(row.TIPO_LOGRADOURO), OrEmpty(row.LOGRADOURO),
                   OrEmpty(row.NUMERO), OrEmpty(row.BAIRRO), OrEmpty(row.UF)>>
        NonBlank(q) == Strip(q) # <<>>
        stripped == SelectSeq(parts, NonBlank)
    IN JoinSpace([k \in 1..Len(stripped) |-> Strip(stripped[k])])

BuildAddress(row) ==
    LET parts == <<OrEmpty(row.TIPO_LOGRADOURO), OrEmpty(row.LOGRADOURO),
                   OrEmpty(row.NUMERO), OrEmpty(row.BAIRRO), OrEmpty(row.UF), Brasil>>
        NonBlank(q) == Strip(q) # <<>>
        stripped == SelectSeq(parts, NonBlank)
    IN JoinSpace([k \in 1..Len(stripped) |-> Strip(stripped[k])])

\* the two query variants of a row, in the order of the loop
Queries(row) == <<BuildAddress(row), OrEmpty(row.NOME_FANTASIA)>>

\* ------------------------------------------------------------ the geocoder's answers
\* "error": the request raised (network, timeout, HTTP status, bad JSON);
\* "empty": data = []; "nolon": data[0] has a lat but float(data[0]["lon"]) raises;
\* "result": data[0] carries lat and lon
GeoLat == {-15, 5}
GeoLon == {-47, 7}
Responses ==
    {[kind |-> "error", lat |-> 0, lon |-> 0],
     [kind |-> "empty", lat |-> 0, lon |-> 0],
     [kind |-> "nolon", lat |-> -15, lon |-> 0]}
    \cup {[kind |-> "result", lat |-> a, lon |-> o] : a \in GeoLat, o \in GeoLon}

\* the hemisphere test of the first result
AcceptedLatOnly(resp) == resp.kind = "result" /\ resp.lat < 0
Accepted(resp) == resp.kind = "result" /\ resp.lat < 0 /\ resp.lon < 0

\* (lat, lon) of the row after the try block handled resp
AfterResponseLatFirst(resp, lat0, lon0) ==
    IF Accepted(resp) THEN <<Num(resp.lat), Num(resp.lon)>>
    ELSE IF resp.kind = "nolon" THEN <<Num(resp.lat), lon0>>
    ELSE <<lat0, lon0>>
AfterResponse(resp, lat0, lon0) ==
    IF Accepted(resp) THEN <<Num(resp.lat), Num(resp.lon)>> ELSE <<lat0, lon0>>

\* where the loop over the variants goes after a request: break, or the sleep
AfterRequestFatal(resp) ==
    IF Accepted(resp) THEN "nomi_append"
    ELSE IF resp.kind \in {"error", "nolon"} THEN "raised"
    ELSE "nomi_sleep"
AfterRequestNoBreak(resp) == "nomi_sleep"
AfterRequest(resp) == IF Accepted(resp) THEN "nomi_append" ELSE "nomi_sleep"

\* ------------------------------------------------------------ inputs
MS == <<"M", "S">>
SP == <<"S", "P">>
UFs == {MS, SP}

\* str.upper() of the region code
UpperChar(c) == IF c = "m" THEN "M" ELSE IF c = "s" THEN "S" ELSE IF c = "p" THEN "P" ELSE c
Upper(u) == [k \in 1..Len(u) |-> UpperChar(u[k])]

\* the SIAFI to IBGE table (df_map)
DfMap == {[SIAFI |-> <<"9">>, IBGE |-> 1], [SIAFI |-> <<"8">>, IBGE |-> 2]}

Est(cep, numero, nome, logradouro, uf_, municipio) ==
    [CNPJ_BASICO |-> <<>>, CNPJ_ORDEM |-> <<"1">>, CNPJ_DV |-> <<"7">>,
     NOME_FANTASIA |-> nome, TIPO_LOGRADOURO |-> NULL, LOGRADOURO |-> logradouro,
     NUMERO |-> numero, BAIRRO |-> <<" ">>, CEP |-> cep, UF |-> uf_,
     MUNICIPIO |-> municipio]

EstPool ==
    {Est(<<"2", "-", "1">>, <<"1", "8">>, <<"N">>, <<"R">>, MS, <<"9">>),
     Est(<<"2", "1">>, <<"2", "0">>, <<" ">>, <<"R">>, MS, <<"9">>),
     Est(<<"2", "1">>, <<"2", "1">>, NULL, <<"R">>, MS, <<"9">>),
     Est(<<"2", "1">>, <<"1", "0">>, <<"N">>, <<"R">>, MS, <<"9">>),
     Est(<<"2", "1">>, <<"S", "/", "N">>, <<"N">>, <<"R">>, MS, <<"9">>),
     Est(<<"x">>, <<"5">>, <<"N">>, NULL, MS, <<"9">>),
     Est(NULL, NULL, NULL, NULL, NULL, NULL)}

Cat(mun, cep, num, lat, lon) ==
    [COD_MUNICIPIO |-> mun, CEP |-> cep, NUM_ENDERECO |-> num,
     LATITUDE |-> lat, LONGITUDE |-> lon]

CatPool ==
    {Cat(1, <<"2", "-", "1">>, <<"1", "0">>, Num(-23), Num(-46)),
     Cat(1, <<"2", "1">>, <<"3", "0">>, Num(-22), Num(-43)),
     Cat(2, <<"2", "1">>, <<"0", "1", "0">>, NaN, Num(-6)),
     Cat(2, <<"2", "1">>, <<"1", "-", "0">>, Num(-9), Num(-8)),
     Cat(1, <<"x">>, <<"5">>, Num(-7), Num(-1)),
     Cat(1, <<"2", "1">>, <<"S", "/", "N">>, Num(-2), Num(-3)),
     Cat(1, <<"2", "1">>, <<"7">>, Text, Num(-4))}

\* the batches of at most MaxRows rows; row k carries identifier k
Batches(pool) ==
    UNION {{[k \in 1..n |-> WithColumns(f[k], [CNPJ_BASICO |-> <<Digits[k + 1]>>])] :
               f \in [1..n -> pool]} : n \in 0..MaxRows}

\* the coordinate files: absent, lacking required columns, or at most MaxCat rows
CoordFiles ==
    {NOFILE,
     [columns |-> Required \ {"LATITUDE"}, rows |-> {}, exists |-> TRUE],
     [columns |-> (Required \ {"CEP", "LONGITUDE"}) \cup {"UF"}, rows |-> {}, exists |-> TRUE]}
    \cup {[columns |-> Required, rows |-> R, exists |-> TRUE] :
             R \in {X \in SUBSET CatPool : Cardinality(X) <= MaxCat}}

\* ------------------------------------------------------------ state
VARIABLES
    raw_file,       \* the establishments read from raw_path
    coord_files,    \* coord_{UF}.parquet of each region
    use_nominatim,  \* the switch of the geocoder stage
    top,            \* position of the caller of enrich
    run,            \* 1: first enrichment; 2: enrichment of the saved output
    saved,          \* the batch written to out_path
    first,          \* the batch the first run saved
    ufs_no_df,      \* _enrich_cnpj_estab: the regions still to enrich
    df_uf,          \* _enrich_cnpj_estab: the rows of the current region
    partes,         \* _enrich_cnpj_estab: the batches of the regions done
    pc,             \* position inside enrich
    uf, ibge_codes, \* arguments of enrich
    df, df_coords, total,               \* locals of enrich
    df_with, df_without, i, q, lat, lon, lats, lons,   \* locals of _enrich_nominatim
    since,          \* delay slept since the last request (NoRequest: none was issued)
    gap,            \* delay between the request just issued and the one before it
    last,           \* the answer to the request just issued
    asked,          \* requests issued for the current row: variant, accepted or not
    error,          \* the exception enrich raised, if any
    attempt,        \* _download_with_retry: the loop variable
    zip_path,       \* _download_with_retry: the file at zip_path
    tries,          \* _download_with_retry: the outcome of each attempt made
    waited,         \* _download_with_retry: seconds slept since the last attempt
    dl              \* position inside _download_with_retry

enrichVars == <<pc, uf, ibge_codes, df, df_coords, total>>
nomiVars == <<df_with, df_without, i, q, lat, lon, lats, lons>>
observed == <<since, gap, last, asked>>
callerVars == <<top, run, saved, first, ufs_no_df, df_uf, partes>>
inputs == <<raw_file, coord_files, use_nominatim>>
downloadVars == <<attempt, zip_path, tries, waited, dl>>
vars == <<inputs, callerVars, enrichVars, nomiVars, observed, error, downloadVars>>

NoRequest == -1

\* the exception in flight: its type and, for the schema error, the columns its
\* message names
NoError == [type |-> "none", missing |-> {}]
Raised(type, missing) == [type |-> type, missing |-> missing]
NoResponse == [kind |-> "none", lat |-> 0, lon |-> 0]

\* the file at zip_path: absent, or holding so many chunks
NoZip == [exists |-> FALSE, chunks |-> 0]
Zip(n) == [exists |-> TRUE, chunks |-> n]

\* _download_with_retry is not running
NoDownload ==
    /\ attempt = 0 /\ zip_path = NoZip /\ tries = <<>> /\ waited = 0 /\ dl = "idle"

NoFrame ==
    /\ df_with = <<>> /\ df_without = <<>> /\ i = 0 /\ q = 0
    /\ lat = NULL /\ lon = NULL /\ lats = <<>> /\ lons = <<>>
    /\ since = NoRequest /\ gap = NoRequest /\ last = NoResponse /\ asked = <<>>

\* ------------------------------------------------------------ enrich, step by step
\* load_coords: the two raises, else one of the catalogs it may return
Load ==
    /\ pc = "load"
    /\ LET file == coord_files[Upper(uf)]
       IN \/ /\ ~file.exists
             /\ error' = Raised("FileNotFoundError", {})
             /\ pc' = "raised"
             /\ UNCHANGED df_coords
          \/ /\ file.exists
             /\ MissingColumns(file) # {}
             /\ error' = Raised("ValueError", MissingColumns(file))
             /\ pc' = "raised"
             /\ UNCHANGED df_coords
          \/ /\ file.exists
             /\ MissingColumns(file) = {}
             /\ df_coords' \in LoadCoords(file, ibge_codes)
             /\ pc' = "prepare"
             /\ UNCHANGED error
    /\ UNCHANGED <<inputs, downloadVars, callerVars, uf, ibge_codes, df, total, nomiVars, observed>>

Prepare ==
    /\ pc = "prepare"
    /\ df' = PrepareEstab(df)
    /\ total' = Len(df')
    /\ pc' = "exact"
    /\ UNCHANGED <<inputs, downloadVars, callerVars, uf, ibge_codes, df_coords, nomiVars, observed, error>>

Exact ==
    /\ pc = "exact"
    /\ df' = EnrichExact(df, df_coords)
    /\ pc' = "approximate"
    /\ UNCHANGED <<inputs, downloadVars, callerVars, uf, ibge_codes, df_coords, total, nomiVars,
                   observed, error>>

Approximate ==
    /\ pc = "approximate"
    /\ df' \in EnrichApproximate(df, df_coords)
    /\ pc' = IF use_nominatim THEN "nominatim" ELSE "report"
    /\ UNCHANGED <<inputs, downloadVars, callerVars, uf, ibge_codes, df_coords, total, nomiVars,
                   observed, error>>

IsNullLatAll(r) == TRUE
IsNullLat(r) == r.LATITUDE = NULL
NotNullLat(r) == r.LATITUDE # NULL

\* _enrich_nominatim up to the first row of the loop
NomiEnter ==
    /\ pc = "nominatim"
    /\ LET with == SelectSeq(df, NotNullLat)
           without == SelectSeq(df, IsNullLat)
       IN IF without = <<>>
          THEN /\ pc' = "report"
               /\ UNCHANGED <<nomiVars, observed>>
          ELSE /\ df_with' = with
               /\ df_without' = without
               /\ lats' = <<>> /\ lons' = <<>>
               /\ i' = 1 /\ q' = 1
               /\ lat' = NULL /\ lon' = NULL
               /\ asked' = <<>>
               /\ pc' = "nomi_query"
               /\ UNCHANGED <<since, gap, last>>
    /\ UNCHANGED <<inputs, downloadVars, callerVars, uf, ibge_codes, df, df_coords, total, error>>

Query == Strip(Queries(df_without[i])[q])
Variant == IF q = 1 THEN "address" ELSE "name"

\* a blank variant: continue, without a request and without the sleep
NomiBlank ==
    /\ pc = "nomi_query" /\ q <= 2
    /\ Query = <<>>
    /\ q' = q + 1
    /\ UNCHANGED <<inputs, downloadVars, callerVars, enrichVars, df_with, df_without, i, lat, lon,
                   lats, lons, observed, error>>

\* one request and the handling of its answer
NomiRequest ==
    /\ pc = "nomi_query" /\ q <= 2
    /\ Query # <<>>
    /\ \E resp \in Responses :
          /\ lat' = AfterResponse(resp, lat, lon)[1]
          /\ lon' = AfterResponse(resp, lat, lon)[2]
          /\ asked' = Append(asked, [variant |-> Variant, accepted |-> Accepted(resp)])
          /\ last' = resp
          /\ pc' = AfterRequest(resp)
    /\ gap' = since
    /\ since' = 0
    /\ UNCHANGED <<inputs, downloadVars, callerVars, uf, ibge_codes, df, df_coords, total,
                   df_with, df_without, i, q, lats, lons, error>>

\* time.sleep(rate_limit) at the end of the variant's iteration
NomiSleep ==
    /\ pc = "nomi_sleep"
    /\ since' = since + RateLimit
    /\ q' = q + 1
    /\ last' = NoResponse /\ gap' = NoRequest
    /\ pc' = "nomi_query"
    /\ UNCHANGED <<inputs, downloadVars, callerVars, uf, ibge_codes, df, df_coords, total,
                   df_with, df_without, i, lat, lon, lats, lons, asked, error>>

\* the end of a row: its pair is appended, the next row starts
NomiAppend ==
    /\ \/ pc = "nomi_append"
       \/ pc = "nomi_query" /\ q > 2
    /\ lats' = Append(lats, lat)
    /\ lons' = Append(lons, lon)
    /\ lat' = NULL /\ lon' = NULL
    /\ last' = NoResponse /\ gap' = NoRequest
    /\ asked' = <<>>
    /\ IF i < Len(df_without)
       THEN /\ i' = i + 1 /\ q' = 1
            /\ pc' = "nomi_query"
       ELSE /\ pc' = "nomi_concat"
            /\ UNCHANGED <<i, q>>
    /\ UNCHANGED <<inputs, downloadVars, callerVars, uf, ibge_codes, df, df_coords, total,
                   df_with, df_without, since, error>>

\* the two Series replace the columns of df_without; concat with df_with
NomiConcat ==
    /\ pc = "nomi_concat"
    /\ df' = df_with \o [k \in 1..Len(df_without) |->
                            WithColumns(df_without[k],
                                        [LATITUDE |-> lats[k], LONGITUDE |-> lons[k]])]
    /\ pc' = "report"
    /\ df_with' = <<>> /\ df_without' = <<>> /\ i' = 0 /\ q' = 0
    /\ lat' = NULL /\ lon' = NULL /\ lats' = <<>> /\ lons' = <<>>
    /\ since' = NoRequest /\ gap' = NoRequest /\ last' = NoResponse /\ asked' = <<>>
    /\ UNCHANGED <<inputs, downloadVars, callerVars, uf, ibge_codes, df_coords, total, error>>

\* the coverage report and the return
Report ==
    /\ pc = "report"
    /\ pc' = "return"
    /\ UNCHANGED <<inputs, downloadVars, callerVars, uf, ibge_codes, df, df_coords, total, nomiVars,
                   observed, error>>

Enrich ==
    \/ Load \/ Prepare \/ Exact \/ Approximate
    \/ NomiEnter \/ NomiBlank \/ NomiRequest \/ NomiSleep \/ NomiAppend \/ NomiConcat
    \/ Report

\* ------------------------------------------------------------ _enrich_and_save
\* write_parquet of the enriched batch
Save ==
    /\ top = "enrich" /\ pc = "return"
    /\ saved' = df
    /\ first' = IF run = 1 THEN df ELSE first
    /\ top' = "saved"
    /\ UNCHANGED <<inputs, downloadVars, run, ufs_no_df, df_uf, partes, enrichVars, nomiVars, observed,
                   error>>

\* the exception of load_coords leaves _enrich_and_save: nothing is written
Propagate ==
    /\ top = "enrich" /\ pc = "raised"
    /\ top' = "crashed"
    /\ UNCHANGED <<inputs, downloadVars, run, saved, first, ufs_no_df, df_uf, partes, enrichVars,
                   nomiVars, observed, error>>

\* the saved output is enriched again, with the same catalog files
Rerun ==
    /\ top = "saved" /\ run = 1
    /\ run' = 2
    /\ top' = "enrich"
    /\ df' = saved
    /\ pc' = "load"
    /\ UNCHANGED <<inputs, downloadVars, saved, first, ufs_no_df, df_uf, partes, uf, ibge_codes,
                   df_coords, total, nomiVars, observed, error>>

\* one call of _enrich_and_save for region MS, on a batch of pool and one of files
InitWith(pool, files) ==
    /\ raw_file \in Batches(pool)
    /\ \E f \in files : coord_files = [u \in UFs |-> IF u = MS THEN f ELSE NOFILE]
    /\ use_nominatim \in BOOLEAN
    /\ top = "enrich" /\ run = 1 /\ saved = <<>> /\ first = <<>>
    /\ ufs_no_df = <<>> /\ df_uf = <<>> /\ partes = <<>>
    /\ pc = "load" /\ uf = MS
    \* a list of municipalities is enumerated only where it leaves a row out
    /\ ibge_codes \in {{}, {1}}
    /\ ibge_codes # {} => \E c \in coord_files[MS].rows : c.COD_MUNICIPIO \notin ibge_codes
    /\ df = raw_file /\ df_coords = {} /\ total = 0
    /\ NoFrame
    /\ error = NoError
    /\ NoDownload

Init == InitWith(EstPool, CoordFiles)

Next == Enrich \/ Save \/ Propagate

Spec == Init /\ [][Next]_vars

\* ------------------------------------------------------------ a second run
\* the inputs of the runs that are repeated: a part of the pools above
RerunEstPool == {e \in EstPool : e.NUMERO \in {<<"2", "0">>, <<"1", "0">>, NULL}}
RerunCoordFiles == {f \in CoordFiles : \A c \in f.rows : c.COD_MUNICIPIO = 1 /\ IsNum(c.LATITUDE)}

InitRerun == InitWith(RerunEstPool, RerunCoordFiles)

NextRerun == Enrich \/ Save \/ Propagate \/ Rerun

SpecRerun == InitRerun /\ [][NextRerun]_vars

\* ------------------------------------------------------------ the stages as units
\* each stage applied to a prepared batch some rows of which already carry a pair
StageEstPool == {e \in EstPool : e.NUMERO \in {<<"1", "0">>, <<"2", "0">>, <<"S", "/", "N">>}}
StageCoordFiles == {f \in CoordFiles : f.exists /\ MissingColumns(f) = {}}
Preset == <<Num(-1), Num(-2)>>

InitStages ==
    /\ raw_file \in Batches(StageEstPool)
    /\ \E f \in StageCoordFiles :
          /\ coord_files = [u \in UFs |-> IF u = MS THEN f ELSE NOFILE]
          /\ df_coords \in LoadCoords(f, {})
    /\ \E pre \in [1..Len(raw_file) -> BOOLEAN] :
          df = [k \in 1..Len(raw_file) |->
                   IF pre[k]
                   THEN WithColumns(PrepareRow(raw_file[k]),
                                    [LATITUDE |-> Preset[1], LONGITUDE |-> Preset[2]])
                   ELSE PrepareRow(raw_file[k])]
    /\ use_nominatim \in BOOLEAN
    /\ top = "stage" /\ run = 1 /\ saved = <<>> /\ first = <<>>
    /\ ufs_no_df = <<>> /\ df_uf = <<>> /\ partes = <<>>
    /\ pc = "exact" /\ uf = MS /\ ibge_codes = {}
    /\ total = Len(raw_file)
    /\ NoFrame
    /\ error = NoError
    /\ NoDownload

NextStages ==
    \/ Exact \/ Approximate
    \/ NomiEnter \/ NomiBlank \/ NomiRequest \/ NomiSleep \/ NomiAppend \/ NomiConcat
    \/ Report

SpecStages == InitStages /\ [][NextStages]_vars

\* ------------------------------------------------------------ enrich around a faulty stage
\* line 318 of enrich when the stage it calls hands back a row less or a row more
\* than it was given; enrich goes on with whatever batch the call returned
ExactMiscount ==
    /\ pc = "exact" /\ df # <<>>
    /\ LET out == EnrichExact(df, df_coords)
       IN df' \in {Tail(out), out \o <<out[1]>>}
    /\ pc' = "approximate"
    /\ UNCHANGED <<inputs, downloadVars, callerVars, uf, ibge_codes, df_coords, total, nomiVars,
                   observed, error>>

InitGuard == InitWith(RerunEstPool, RerunCoordFiles)

NextGuard == Enrich \/ ExactMiscount \/ Save \/ Propagate

SpecGuard == InitGuard /\ [][NextGuard]_vars

\* ------------------------------------------------------------ _enrich_cnpj_estab
\* siafi_to_ibge of the MUNICIPIO codes of a batch; an empty list counts as None
SiafiToIbge(d) ==
    {m.IBGE : m \in {x \in DfMap : \E k \in 1..Len(d) : d[k].MUNICIPIO = x.SIAFI}}

\* the orders unique() may list the regions in
AnyOrder(S) ==
    LET s == SetToSeq(S) IN {[n \in 1..Len(s) |-> s[p[n]]] : p \in Perms(Len(s))}

\* concat(how="diagonal"): the union of the columns, null where a batch lacks one
ConcatDiagonal(ps) ==
    LET rows == Flatten(ps)
        cols == UNION {DOMAIN rows[k] : k \in 1..Len(rows)}
    IN [k \in 1..Len(rows) |->
           [c \in cols |-> IF c \in DOMAIN rows[k] THEN rows[k][c] ELSE NULL]]

\* read_parquet, the list of the regions present, partes = []
RegionsRead ==
    /\ top = "read"
    /\ ufs_no_df' \in AnyOrder({raw_file[k].UF : k \in 1..Len(raw_file)} \ {NULL})
    /\ partes' = <<>>
    /\ top' = "loop"
    /\ UNCHANGED <<inputs, downloadVars, run, saved, first, df_uf, enrichVars, nomiVars, observed, error>>

\* the head of an iteration: the rows of the region, its IBGE codes, the call
RegionCall ==
    /\ top = "loop" /\ ufs_no_df # <<>>
    /\ LET uf_val == Head(ufs_no_df)
           InUf(r) == r.UF = uf_val
       IN /\ uf' = uf_val
          /\ df_uf' = SelectSeq(raw_file, InUf)
          /\ ibge_codes' = SiafiToIbge(df_uf')
          /\ df' = df_uf'
    /\ pc' = "load"
    /\ top' = "enrich_uf"
    /\ UNCHANGED <<inputs, downloadVars, run, saved, first, ufs_no_df, partes, df_coords, total,
                   nomiVars, observed, error>>

\* enrich returned: df_uf is the enriched batch
RegionReturn ==
    /\ top = "enrich_uf" /\ pc = "return"
    /\ df_uf' = df
    /\ partes' = Append(partes, df)
    /\ ufs_no_df' = Tail(ufs_no_df)
    /\ top' = "loop"
    /\ UNCHANGED <<inputs, downloadVars, run, saved, first, enrichVars, nomiVars, observed, error>>

\* except FileNotFoundError: the region's rows are kept as they were read
RegionCatch ==
    /\ top = "enrich_uf" /\ pc = "raised" /\ error.type = "FileNotFoundError"
    /\ partes' = Append(partes, df_uf)
    /\ ufs_no_df' = Tail(ufs_no_df)
    /\ error' = NoError
    /\ top' = "loop"
    /\ UNCHANGED <<inputs, downloadVars, run, saved, first, df_uf, enrichVars, nomiVars, observed>>

\* any other exception leaves _enrich_cnpj_estab: nothing is written
RegionPropagate ==
    /\ top = "enrich_uf" /\ pc = "raised" /\ error.type # "FileNotFoundError"
    /\ top' = "crashed"
    /\ UNCHANGED <<inputs, downloadVars, run, saved, first, ufs_no_df, df_uf, partes, enrichVars,
                   nomiVars, observed, error>>

\* after the loop: the diagonal concat (the input itself when partes is empty), written
RegionsWrite ==
    /\ top = "loop" /\ ufs_no_df = <<>>
    /\ saved' = IF partes # <<>> THEN ConcatDiagonal(partes) ELSE raw_file
    /\ top' = "saved"
    /\ UNCHANGED <<inputs, downloadVars, run, first, ufs_no_df, df_uf, partes, enrichVars, nomiVars,
                   observed, error>>

RegionEstPool ==
    {Est(<<"2", "1">>, <<"1", "0">>, <<"N">>, <<"R">>, MS, <<"9">>),
     Est(<<"2", "1">>, <<"3", "0">>, NULL, <<"R">>, SP, <<"8">>),
     Est(NULL, NULL, NULL, NULL, NULL, NULL)}

RegionCoordFiles ==
    {f \in CoordFiles :
        \/ f.rows = {}
        \/ f.rows = {c \in CatPool : StripNonDigits(c.NUM_ENDERECO) \in {<<"3", "0">>, <<"0", "1", "0">>}}}

InitRegions ==
    /\ raw_file \in Batches(RegionEstPool)
    /\ coord_files \in [UFs -> RegionCoordFiles]
    /\ use_nominatim \in BOOLEAN
    /\ top = "read" /\ run = 1 /\ saved = <<>> /\ first = <<>>
    /\ ufs_no_df = <<>> /\ df_uf = <<>> /\ partes = <<>>
    /\ pc = "idle" /\ uf = MS /\ ibge_codes = {}
    /\ df = <<>> /\ df_coords = {} /\ total = 0
    /\ NoFrame
    /\ error = NoError
    /\ NoDownload

NextRegions ==
    \/ RegionsRead \/ RegionCall \/ Enrich \/ RegionReturn \/ RegionCatch
    \/ RegionPropagate \/ RegionsWrite

SpecRegions == InitRegions /\ [][NextRegions]_vars

\* ------------------------------------------------------------ _download_with_retry
\* what one pass through the try block may do: "connect": requests.get raises;
\* "status": raise_for_status raises; "stream": the file was opened and the body
\* broke off after some chunks; "ok": all MaxChunks chunks were written
Outcomes ==
    {[kind |-> "connect", chunks |-> 0], [kind |-> "status", chunks |-> 0],
     [kind |-> "ok", chunks |-> MaxChunks]}
    \cup {[kind |-> "stream", chunks |-> n] : n \in 0..(MaxChunks - 1)}

\* the file after the try block: open(zip_path, "wb") truncates, then the chunks
AfterTry(o, file) == IF o.kind \in {"stream", "ok"} THEN Zip(o.chunks) ELSE file

\* zip_path.unlink(missing_ok=True)
UnlinkKeep(file) == file
Unlink(file) == NoZip

\* the try block of one attempt
DownloadTry ==
    /\ dl = "try"
    /\ \E o \in Outcomes :
          /\ tries' = Append(tries, o)
          /\ zip_path' = AfterTry(o, zip_path)
          /\ dl' = IF o.kind = "ok" THEN "returned" ELSE "except"
    /\ waited' = 0
    /\ UNCHANGED <<inputs, callerVars, enrichVars, nomiVars, observed, error, attempt>>

\* the except block: unlink, then the sleep and the next attempt, or the raise
DownloadExcept ==
    /\ dl = "except"
    /\ zip_path' = Unlink(zip_path)
    /\ IF attempt < DownloadRetries
       THEN /\ waited' = RetryWaitSecs
            /\ attempt' = attempt + 1
            /\ dl' = "try"
       ELSE /\ dl' = "raised"
            /\ UNCHANGED <<attempt, waited>>
    /\ UNCHANGED <<inputs, callerVars, enrichVars, nomiVars, observed, error, tries>>

\* a call of _download_with_retry; zip_path may hold a file left by an earlier run
InitDownload ==
    /\ raw_file = <<>> /\ coord_files = [u \in UFs |-> NOFILE] /\ use_nominatim = FALSE
    /\ top = "download" /\ run = 1 /\ saved = <<>> /\ first = <<>>
    /\ ufs_no_df = <<>> /\ df_uf = <<>> /\ partes = <<>>
    /\ pc = "idle" /\ uf = MS /\ ibge_codes = {}
    /\ df = <<>> /\ df_coords = {} /\ total = 0
    /\ NoFrame
    /\ error = NoError
    /\ attempt = 1 /\ tries = <<>> /\ waited = 0 /\ dl = "try"
    /\ zip_path \in {NoZip} \cup {Zip(n) : n \in 0..MaxChunks}

NextDownload == DownloadTry \/ DownloadExcept

SpecDownload == InitDownload /\ [][NextDownload]_vars

\* ============================================================ properties
Id(r) == r.CNPJ_BASICO
Resolved(r) == r.LATITUDE # NULL /\ r.LONGITUDE # NULL
Unresolved(r) == r.LATITUDE = NULL /\ r.LONGITUDE = NULL
Copies(d, r) == {j \in 1..Len(d) : Id(d[j]) = Id(r)}

\* a has as many rows as b and holds every row identity of b exactly once
SameRows(a, b) ==
    /\ Len(a) = Len(b)
    /\ \A k \in 1..Len(b) : Cardinality(Copies(a, b[k])) = 1

\* C1: the batch every stage returns, and the batch the full cascade returns and
\* saves, has as many rows as the input and holds each input row exactly once.
RowCountInvariant ==
    /\ SameRows(df, raw_file)
    /\ top = "saved" => SameRows(saved, raw_file)

\* C1 witness: a saved batch of two rows, one resolved from the catalog and one by
\* the geocoder, so that all three stages have filled something.
RowCountWitness ==
    /\ top = "saved" /\ Len(saved) >= 2
    /\ \E k \in 1..Len(saved) : saved[k].LATITUDE = Num(-15)
    /\ \E k \in 1..Len(saved) : Resolved(saved[k]) /\ saved[k].LATITUDE # Num(-15)

\* C2: a step of a stage (exact, approximate, geocoder) leaves every row that
\* already carries a pair with the same latitude and longitude.
NonOverwrite ==
    [][\A k \in 1..Len(df) :
          Resolved(df[k]) =>
              /\ Copies(df', df[k]) # {}
              /\ \A j \in Copies(df', df[k]) :
                    /\ df'[j].LATITUDE = df[k].LATITUDE
                    /\ df'[j].LONGITUDE = df[k].LONGITUDE]_vars

\* C2 witness: after the three stages, a row still carries the pair it came with
\* although the catalog holds another pair for its exact key, next to a row the
\* geocoder filled.
NonOverwriteWitness ==
    /\ pc = "return" /\ use_nominatim
    /\ \E k \in 1..Len(df) :
          /\ df[k].LATITUDE = Preset[1] /\ df[k].LONGITUDE = Preset[2]
          /\ ExactMatches(df[k], df_coords) # {}
    /\ \E k \in 1..Len(df) : df[k].LATITUDE = Num(-15)

\* C3: whenever a request follows an earlier request of the stage, at least
\* rate_limit of delay was slept between the two.
PolitenessDelay == gap # NoRequest => gap >= RateLimit

PairOk(a, o) == (a = NULL) <=> (o = NULL)

\* C5: in every batch and in every pair the geocoder loop holds, latitude and
\* longitude are both present or both absent.
BothOrNeither ==
    /\ \A d \in {df, saved, df_with, df_without} :
          \A k \in 1..Len(d) :
              "LATITUDE" \in DOMAIN d[k] => PairOk(d[k].LATITUDE, d[k].LONGITUDE)
    /\ Len(lats) = Len(lons)
    /\ \A k \in 1..Len(lats) : PairOk(lats[k], lons[k])
    /\ PairOk(lat, lon)

\* C5 witness: the answer just handled had a latitude and no usable longitude,
\* after a row of the same batch was resolved from the catalog.
BothOrNeitherWitness ==
    /\ pc = "nomi_sleep" /\ last.kind = "nolon"
    /\ df_with # <<>>

\* C6: every pair the geocoder stage writes has latitude < 0 and longitude < 0,
\* and a first result with latitude >= 0 or longitude >= 0 writes nothing and
\* leaves the variant unmatched (the loop goes on to the sleep).
HemisphereFilter ==
    /\ \A k \in 1..Len(lats) :
          lats[k] # NULL => NumOf(lats[k]) < 0 /\ lons[k] # NULL /\ NumOf(lons[k]) < 0
    /\ lat # NULL => NumOf(lat) < 0 /\ lon # NULL /\ NumOf(lon) < 0
    /\ (last.kind = "result" /\ (last.lat >= 0 \/ last.lon >= 0)) =>
          /\ lat = NULL /\ lon = NULL
          /\ pc = "nomi_sleep"
          /\ ~asked[Len(asked)].accepted

\* C6 witness: a result with a negative latitude and a positive longitude was just
\* rejected, after the pair of an earlier row was accepted.
HemisphereWitness ==
    /\ pc = "nomi_sleep"
    /\ last.kind = "result" /\ last.lat < 0 /\ last.lon >= 0
    /\ Len(lats) >= 1 /\ lats[1] = Num(-15)

SamePair(a, b) == a.LATITUDE = b.LATITUDE /\ a.LONGITUDE = b.LONGITUDE

\* C4: in a second run on the saved output of a first run, every row the first
\* run resolved keeps its pair throughout (it is not reset, recomputed or
\* queried again), and the batch the second run saves carries the same pairs.
Idempotence ==
    run = 2 =>
        /\ \A k \in 1..Len(first) :
              Resolved(first[k]) => \A j \in Copies(df, first[k]) : SamePair(df[j], first[k])
        /\ top = "saved" =>
              \A k \in 1..Len(first) :
                  \A j \in Copies(saved, first[k]) : SamePair(saved[j], first[k])

\* the catalog rows of r's postal code that have a numeric street number
NumericGroup(r, coords) == {c \in coords : c._NUM_IBGE # NULL /\ c.CEP = r.CEP}
Distance(c, r) == Abs(NumOf(c._NUM_IBGE) - NumOf(CastStrFloat(r.NUMERO)))
Nearest(r, coords) ==
    {c \in NumericGroup(r, coords) :
        \A o \in NumericGroup(r, coords) : Distance(c, r) <= Distance(o, r)}
NearestLarger(r, coords) ==
    {c \in Nearest(r, coords) :
        \A o \in Nearest(r, coords) : NumOf(o._NUM_IBGE) <= NumOf(c._NUM_IBGE)}
NearestSmaller(r, coords) ==
    {c \in Nearest(r, coords) :
        \A o \in Nearest(r, coords) : NumOf(c._NUM_IBGE) <= NumOf(o._NUM_IBGE)}

\* row k enters the approximate stage unresolved, with a number and a numeric
\* catalog group
ApproximateScope(k) ==
    /\ Unresolved(df[k]) /\ HasNum(df[k])
    /\ NumericGroup(df[k], df_coords) # {}

\* the step gives row k the pair of a catalog row of C
AppliedFrom(k, C) ==
    /\ Copies(df', df[k]) # {}
    /\ \A j \in Copies(df', df[k]) : \E c \in C : SamePair(df'[j], c)

ExactMatchCorrect ==
    [][/\ pc = "exact" =>
             \A k \in 1..Len(df) :
                 Unresolved(df[k]) =>
                     \A c \in df_coords :
                         CoordKey(c) = <<df[k].CEP, df[k].NUMERO>> =>
                             /\ Copies(df', df[k]) # {}
                             /\ \A j \in Copies(df', df[k]) : SamePair(df'[j], c)
       /\ \A c1, c2 \in df_coords' : CoordKey(c1) = CoordKey(c2) => c1 = c2]_vars

\* C8 witness: the file held two rows that normalise to one key, and after the
\* exact stage an establishment of that key carries the pair of the one kept.
ExactMatchWitness ==
    /\ pc = "approximate"
    /\ \E x, y \in coord_files[MS].rows :
          /\ x # y
          /\ CoordKey(NormalizeCoordRow(x)) = CoordKey(NormalizeCoordRow(y))
          /\ \E k \in 1..Len(df) :
                /\ CoordKey(NormalizeCoordRow(x)) = <<df[k].CEP, df[k].NUMERO>>
                /\ \E c \in df_coords : SamePair(df[k], c) /\ Resolved(df[k])

\* C9: for the row at hand the address variant is requested first; the name
\* variant is requested after it exactly when the address request was not
\* accepted and the name is not blank; nothing is requested after an accepted
\* request; at most two requests are issued for the row.
FallbackOrdering ==
    pc \in {"nomi_query", "nomi_sleep", "nomi_append"} =>
        LET name == Strip(OrEmpty(df_without[i].NOME_FANTASIA))
            rowDone == pc = "nomi_append" \/ (pc = "nomi_query" /\ q > 2)
        IN /\ Len(asked) <= 2
           /\ Len(asked) >= 1 => asked[1].variant = "address"
           /\ Len(asked) = 2 =>
                 asked[2].variant = "name" /\ ~asked[1].accepted /\ name # <<>>
           /\ rowDone =>
                 /\ Len(asked) >= 1
                 /\ (~asked[1].accepted /\ name # <<>>) => Len(asked) = 2

\* C9 witness: the address request of the row was not accepted and its name
\* request, issued second, was.
FallbackWitness ==
    /\ pc = "nomi_append"
    /\ Len(asked) = 2 /\ ~asked[1].accepted /\ asked[2].accepted

\* the catalog of region u loads
CatalogLoads(u) == coord_files[Upper(u)].exists /\ MissingColumns(coord_files[Upper(u)]) = {}

\* C10: a catalog failure of a region (file absent, or a required field missing)
\* never ends the run without the combined output, and the output that is
\* written holds the rows of every region whose catalog loads enriched.
RegionFailureIsolated ==
    /\ top # "crashed"
    /\ top = "saved" =>
          \A k \in 1..Len(saved) :
              (saved[k].UF # NULL /\ CatalogLoads(saved[k].UF)) =>
                  "CNPJ" \in DOMAIN saved[k] /\ saved[k].CNPJ # NULL

RequestFailed == last.kind \in {"error", "empty", "nolon"}

\* C12: a failed request never ends the geocoder stage: the loop sleeps and goes
\* on to the next variant of the same row, after the last variant to the next
\* row; when the loop ends every unresolved row has its entry, and the stage
\* returns a batch of as many rows; only load_coords ever raises.
RowFailuresNonFatal ==
    [][/\ RequestFailed' => pc' = "nomi_sleep" /\ error' = NoError
       /\ pc = "nomi_sleep" => pc' = "nomi_query" /\ i' = i /\ q' = q + 1
       /\ (pc = "nomi_query" /\ q > 2) =>
             /\ Len(lats') = Len(lats) + 1
             /\ i < Len(df_without) => pc' = "nomi_query" /\ i' = i + 1 /\ q' = 1
       /\ pc' = "nomi_concat" => Len(lats') = Len(df_without') /\ i' = Len(df_without')
       /\ pc = "nomi_concat" => pc' = "report" /\ Len(df') = Len(df)
       /\ pc' = "raised" => pc \in {"load", "raised"}]_vars

\* C12 witness: the name request of the second unresolved row raised, after the
\* first row went through both variants without a pair, and the loop is still
\* running.
RowFailuresWitness ==
    /\ pc = "nomi_sleep" /\ last.kind = "error"
    /\ i = 2 /\ q = 2 /\ lats = <<NULL>>

\* C13: once load_coords is over, a region without a catalog file has raised the
\* not-found error; a file that lacks required columns has raised the schema
\* error naming exactly the columns it lacks; any other file raised nothing; and
\* after either raise no catalog was returned and no stage touched the batch.
CatalogLoadErrors ==
    LET file == coord_files[Upper(uf)]
        absent == Required \ file.columns
    IN pc # "load" =>
          /\ ~file.exists => pc = "raised" /\ error = Raised("FileNotFoundError", {})
          /\ (file.exists /\ absent # {}) =>
                pc = "raised" /\ error = Raised("ValueError", absent)
          /\ (file.exists /\ absent = {}) => pc # "raised" /\ error = NoError
          /\ pc = "raised" => df_coords = {} /\ df = raw_file /\ total = 0

\* C13 witness: the file lacks two of the five columns and carries one that is
\* not required; the schema error names the two, and the batch of two rows is
\* as it was read.
CatalogLoadWitness ==
    /\ pc = "raised" /\ error.type = "ValueError"
    /\ error.missing = {"CEP", "LONGITUDE"}
    /\ Len(raw_file) = 2 /\ df = raw_file

\* no row of the loaded catalog has the postal code of the prepared row r
NoCandidate(r) == \A c \in df_coords : c.CEP # r.CEP

\* C14: an establishment whose normalised postal code is the postal code of no
\* catalog row leaves the exact stage and the approximate stage as
\* _prepare_estab made it (no pair, every other field as it was), and is one of
\* the rows the geocoder stage works on.
NoCatalogCandidate ==
    /\ (pc \in {"approximate", "nominatim"} \/ (pc = "report" /\ ~use_nominatim)) =>
          \A k \in 1..Len(raw_file) :
              LET r == PrepareRow(raw_file[k])
              IN NoCandidate(r) => r \in Range(df)
    /\ pc \in {"nomi_query", "nomi_sleep", "nomi_append", "nomi_concat"} =>
          \A j \in 1..Len(df) :
              NoCandidate(df[j]) => Unresolved(df[j]) /\ df[j] \in Range(df_without)

\* C14 witness: after the approximate stage a row with a street number, whose
\* postal code the catalog lacks, has no pair, while the catalog has numbered
\* rows and resolved another row of the batch.
NoCatalogCandidateWitness ==
    /\ pc = "nominatim"
    /\ \E k \in 1..Len(df) : NoCandidate(df[k]) /\ HasNum(df[k]) /\ Unresolved(df[k])
    /\ \E c \in df_coords : c._NUM_IBGE # NULL
    /\ \E j \in 1..Len(df) : Resolved(df[j])

\* C15: a step issues a request only when the geocoder stage is enabled, and then
\* for a row that left the approximate stage without a pair; with the stage
\* disabled nothing is requested and enrich returns the batch of the approximate
\* stage as it is, its unresolved rows still without a pair.
GeocoderScope ==
    [][/\ (asked' # asked /\ asked' # <<>>) =>
             /\ use_nominatim
             /\ \E j \in 1..Len(df) : df[j] = df_without[i] /\ Unresolved(df[j])
       /\ ~use_nominatim =>
             /\ asked' = <<>> /\ since' = NoRequest /\ last' = NoResponse
             /\ pc = "approximate" => pc' = "report"
             /\ pc = "report" => pc' = "return" /\ df' = df]_vars

\* C15 witness: with the stage enabled, the first unresolved row was just given a
\* pair by a request, while a row resolved from the catalog was set aside.
GeocoderScopeWitness ==
    /\ use_nominatim /\ pc = "nomi_append"
    /\ i = 1 /\ asked # <<>> /\ asked[Len(asked)].accepted
    /\ df_with # <<>> /\ \A k \in 1..Len(df_with) : Resolved(df_with[k])

\* the display name of the row followed by its region code
NameAndRegion(row) ==
    LET parts == <<OrEmpty(row.NOME_FANTASIA), OrEmpty(row.UF)>>
        NonBlank(x) == Strip(x) # <<>>
        kept == SelectSeq(parts, NonBlank)
    IN JoinSpace([k \in 1..Len(kept) |-> Strip(kept[k])])

\* C16: the query of the second request issued for a row is the row's display
\* name followed by its region code.
SecondQueryNameAndRegion ==
    [][(asked' # asked /\ Len(asked') = 2) => Query = NameAndRegion(df_without[i])]_vars

\* a finite number: neither null nor NaN
Finite(v) == IsNum(v)

\* C17: every row of the catalog load_coords returned has a non-empty street
\* number and a finite latitude and longitude.
CatalogRowsFinite ==
    \A c \in df_coords :
        NonEmptyStr(c.NUM_ENDERECO) /\ Finite(c.LATITUDE) /\ Finite(c.LONGITUDE)

\* a value that is there and holds no digit
Malformed(s) == s # NULL /\ StripNonDigits(s) = <<>>

\* C18: an establishment whose postal code or street number holds no digit has
\* no pair after the exact stage and none after the approximate stage, whatever
\* the catalog holds.
MalformedUnmatched ==
    (pc \in {"approximate", "nominatim"} \/ (pc = "report" /\ ~use_nominatim)) =>
        \A k \in 1..Len(raw_file) :
            (Malformed(raw_file[k].CEP) \/ Malformed(raw_file[k].NUMERO)) =>
                \A j \in Copies(df, raw_file[k]) : Unresolved(df[j])

\* C19: _download_with_retry makes at most _DOWNLOAD_RETRIES attempts and none
\* after a successful one; it returns exactly when an attempt succeeded, with the
\* whole file written; every later attempt starts with the file of the failed
\* attempt removed and the wait slept; it raises only after the last attempt
\* failed, and then no file is left at zip_path.
DownloadRetryProtocol ==
    /\ Len(tries) <= DownloadRetries /\ attempt <= DownloadRetries
    /\ \A k \in 1..(Len(tries) - 1) : tries[k].kind # "ok"
    /\ dl = "returned" <=> (tries # <<>> /\ tries[Len(tries)].kind = "ok")
    /\ dl = "returned" => zip_path = Zip(MaxChunks) /\ Len(tries) = attempt
    /\ dl = "try" =>
          /\ Len(tries) = attempt - 1
          /\ attempt > 1 => zip_path = NoZip /\ waited = RetryWaitSecs
    /\ dl = "raised" =>
          /\ Len(tries) = DownloadRetries
          /\ \A k \in 1..Len(tries) : tries[k].kind # "ok"
          /\ zip_path = NoZip

\* C19 witness: the third attempt broke off after a chunk was written, as the
\* first had, and the call raised.
DownloadRetryWitness ==
    /\ dl = "raised" /\ Len(tries) = 3
    /\ tries[1] = [kind |-> "stream", chunks |-> 1]
    /\ tries[3] = [kind |-> "stream", chunks |-> 1]

\* C20: the batch _enrich_cnpj_estab writes holds every row of the file it read
\* exactly once, whatever the regions of the rows.
RegionsKeepEveryRow == top = "saved" => SameRows(saved, raw_file)

\* C21: after the exact and the approximate stage a row has no pair exactly when
\* its normalised street number does not parse as a number or no row of the
\* loaded catalog has its postal code; every other row has a pair, however far
\* the nearest catalog number is.
CatalogStagesComplete ==
    (pc = "nominatim" \/ (pc = "report" /\ ~use_nominatim)) =>
        \A j \in 1..Len(df) :
            /\ Unresolved(df[j]) <=> (HasNoNum(df[j]) \/ NoCandidate(df[j]))
            /\ ~(HasNoNum(df[j]) \/ NoCandidate(df[j])) => Resolved(df[j])

\* C21 witness: after the approximate stage one row has a pair although no
\* catalog row has its key and the only catalog number of its postal code is 9
\* or more away, and another row, whose postal code the catalog has, is without
\* a pair because its street number holds no digit.
CatalogStagesWitness ==
    /\ pc = "nominatim"
    /\ \E j \in 1..Len(df) :
          /\ Resolved(df[j]) /\ ExactMatches(df[j], df_coords) = {}
          /\ \A c \in NumericGroup(df[j], df_coords) : Distance(c, df[j]) >= 9
    /\ \E j \in 1..Len(df) :
          Unresolved(df[j]) /\ HasNoNum(df[j]) /\ df[j].NUMERO = <<>> /\ ~NoCandidate(df[j])

\* a row none of whose address fields holds anything but blanks
Blank(v) == Strip(OrEmpty(v)) = <<>>
NoAddressData(row) ==
    /\ Blank(row.TIPO_LOGRADOURO) /\ Blank(row.LOGRADOURO) /\ Blank(row.NUMERO)
    /\ Blank(row.BAIRRO) /\ Blank(row.UF)

\* C22: the address query of a row of the geocoder stage is never blank, and is
\* the country suffix alone when the row has no address data; so the first
\* variant is never skipped: the first request of a row is the address one, and
\* once the loop is past the first variant at least one request was issued.
AddressNeverBlank ==
    pc \in {"nomi_query", "nomi_sleep", "nomi_append"} =>
        LET row == df_without[i]
            address == Strip(Queries(row)[1])
        IN /\ address # <<>>
           /\ NoAddressData(row) => address = Brasil
           /\ (pc = "nomi_query" /\ q = 1) => asked = <<>>
           /\ ~(pc = "nomi_query" /\ q = 1) =>
                 Len(asked) >= 1 /\ asked[1].variant = "address"

\* C22 witness: a row with no address data and no trade name ends its loop with
\* a pair, after a single request, the accepted one for the country suffix.
AddressNeverBlankWitness ==
    /\ pc = "nomi_append"
    /\ NoAddressData(df_without[i]) /\ Blank(df_without[i].NOME_FANTASIA)
    /\ Strip(Queries(df_without[i])[1]) = Brasil
    /\ asked = <<[variant |-> "address", accepted |-> TRUE]>>
    /\ lat # NULL /\ lon # NULL

====
